---- MODULE Spec2Model ----
(***************************************************************************)
(* libSocket: the generic socket handle (SocketBase) and its blocking I/O  *)
(* engine, modelled from src/src/socket_base.cpp, src/include/socket_base.h *)
(* and src/src/unix.cpp.                                                    *)
(*                                                                          *)
(* The program state is a set of handle objects (hsock_, inode_), the file  *)
(* descriptor table and socket objects of the OS, and one caller thread     *)
(* whose position inside read / pending / waitData is kept in pc.           *)
(***************************************************************************)
EXTENDS Integers, Sequences, FiniteSets, TLC

\* ---------------------------------------------------------------- bounds
NumHandles == 2          \* handle objects (slots) the program may hold
NumFds     == 3          \* size of the descriptor table (socket() fails beyond)
MaxQueue   == 2          \* capacity of a socket input queue (bytes / datagrams)
MaxBytes   == 2          \* largest buffer length passed to read / write
MaxTimeout == 1          \* largest bounded timeout, in milliseconds
TickUsec   == 500        \* granularity of elapsing time, in microseconds

\* ------------------------------------------------------ program constants
INVALID_HANDLER   == -1
INVALID_INODE     == 0
WAIT_DATA_FOREVER == -1
DONT_WAIT         == 0
WRITE_WAIT_QUEUED == 1
WRITE_DONT_WAIT   == 0

Handles == 1 .. NumHandles
FDs     == 0 .. (NumFds - 1)
Bytes   == {"a"}
Kinds   == {"stream", "dgram"}

VARIABLES
    cls,        \* cls[h]: class of the object in slot h, "none" when no object exists
    hsock,      \* hsock[h]: SocketBase::hsock_
    inode,      \* inode[h]: SocketBase::inode_
    sk,         \* OS: sk[fd] = the socket descriptor fd refers to (kind "none": fd is closed)
    cur,        \* the operation the caller invoked last (or is inside of)
    res,        \* what that operation returned or raised
    calls,      \* the OS calls that operation issued, in order
    pc,         \* position of the caller inside a blocking operation
    loc         \* locals of the blocking operation: lesen, tm, count; buf is the caller's buffer

vars == <<cls, hsock, inode, sk, cur, res, calls, pc, loc>>

\* ------------------------------------------------------------- OS model
\* nb: O_NONBLOCK is set on the descriptor (fcntl F_SETFL)
BlankSock == [kind |-> "none", conn |-> "none", peer |-> INVALID_HANDLER, hup |-> FALSE, rq |-> <<>>,
              nb |-> FALSE]

IsOpen(socks, fd) == fd \in FDs /\ socks[fd].kind # "none"
FreeFds(socks)    == {fd \in FDs : socks[fd].kind = "none"}
MinOf(S)          == CHOOSE x \in S : \A y \in S : x <= y

\* st_ino that fstat reports for the socket behind an open descriptor: a
\* non-zero number that identifies the socket (distinct open sockets differ).
StIno(fd) == fd + 1

\* close(2) of an open descriptor: the socket goes away; a connected stream
\* peer sees end-of-file once its queue is drained.
OsClose(socks, fd) ==
    LET p == socks[fd].peer
    IN  [d \in FDs |->
            IF d = fd THEN BlankSock
            ELSE IF d = p
                 THEN [socks[d] EXCEPT !.peer = INVALID_HANDLER, !.conn = "none",
                                       !.hup = (socks[d].kind = "stream")]
                 ELSE socks[d]]

\* shutdown(fd, SHUT_RDWR): both directions end; a stream peer sees end-of-file.
OsShutdown(socks, fd) ==
    LET p == socks[fd].peer
    IN  [d \in FDs |->
            IF d = p /\ socks[d].kind = "stream"
            THEN [socks[d] EXCEPT !.hup = TRUE]
            ELSE IF d = fd THEN [socks[d] EXCEPT !.hup = TRUE]
            ELSE socks[d]]

\* ------------------------------------------------------- result records
NoRes        == [exc |-> "none", what |-> "", val |-> 0]
Value(v)     == [exc |-> "none", what |-> "", val |-> v]
SysErr(w)    == [exc |-> "system_error", what |-> w, val |-> 0]
InvArg(w)    == [exc |-> "invalid_argument", what |-> w, val |-> 0]
InvalidHandleErr == SysErr("Invalid socket handler")

\* cur: the operation, and while the caller is inside it, its arguments
\* (mask and list are waitEvent's eventType and socklist)
Op(o)    == [op |-> o, h |-> 0, bytes |-> 0, timeout |-> 0, bufOk |-> TRUE,
             mask |-> {}, list |-> <<>>]
NoTm     == [tv_sec |-> 0, tv_usec |-> 0]
NoLoc    == [lesen |-> 0, tm |-> NoTm, count |-> 0, buf |-> <<>>]

\* isLive: the validity test repeated at the top of every I/O operation
IsLive(h) == ~(hsock[h] = INVALID_HANDLER \/ inode[h] = INVALID_INODE)

\* The slot a newly constructed object occupies (slots are interchangeable)
NewSlot(h) == cls[h] = "none" /\ \A g \in Handles : g < h => cls[g] # "none"

\* SocketBase::getInode for a handle whose hsock_ is d
GetInode(socks, d, fstatOk) ==
    IF d # INVALID_HANDLER /\ IsOpen(socks, d) /\ fstatOk THEN StIno(d) ELSE 0

\* ------------------------------------------------- terminate / close core
TerminateFxNoShutdown(d, socks) ==
    IF d # INVALID_HANDLER
    THEN <<OsClose(socks, d), << <<"close", d>> >> >>
    ELSE <<socks, <<>> >>

CloseFxUnguarded(d, socks) ==
    <<IF d # INVALID_HANDLER THEN OsClose(socks, d) ELSE socks, << <<"close", d>> >> >>

TerminateFxCloseFirst(d, socks) ==
    IF d # INVALID_HANDLER
    THEN <<OsShutdown(OsClose(socks, d), d), << <<"close", d>>, <<"shutdown", d>> >> >>
    ELSE <<socks, <<>> >>

\* The effect of SocketBase::terminate on a handle whose hsock_ is d:
\* <<sockets afterwards, OS calls issued>>.
TerminateFx(d, socks) ==
    IF d # INVALID_HANDLER
    THEN <<OsClose(OsShutdown(socks, d), d), << <<"shutdown", d>>, <<"close", d>> >> >>
    ELSE <<socks, <<>> >>

\* The effect of SocketBase::close, likewise
CloseFx(d, socks) ==
    IF d # INVALID_HANDLER
    THEN <<OsClose(socks, d), << <<"close", d>> >> >>
    ELSE <<socks, <<>> >>

Init ==
    /\ cls   = [h \in Handles |-> "none"]
    /\ hsock = [h \in Handles |-> INVALID_HANDLER]
    /\ inode = [h \in Handles |-> INVALID_INODE]
    /\ sk    = [fd \in FDs |-> BlankSock]
    /\ cur   = Op("none")
    /\ res   = NoRes
    /\ calls = <<>>
    /\ pc    = "idle"
    /\ loc   = NoLoc

\* SocketBase::SocketBase()
DefaultCtor(h) ==
    /\ pc = "idle" /\ NewSlot(h)
    /\ cls'   = [cls EXCEPT ![h] = "base"]
    /\ hsock' = [hsock EXCEPT ![h] = INVALID_HANDLER]
    /\ inode' = [inode EXCEPT ![h] = INVALID_INODE]
    /\ cur' = Op("ctor") /\ res' = NoRes /\ calls' = <<>>
    /\ UNCHANGED <<sk, pc, loc>>

\* SocketBase::SocketBase(family, type, protocol), reached through
\* StreamSock() / DatagramSock(address): socket(), getInode(), validity test.
Acquire(h, kind, sockOk, fstatOk) ==
    /\ pc = "idle" /\ NewSlot(h)
    /\ LET ok  == sockOk /\ FreeFds(sk) # {}
           fd  == IF ok THEN MinOf(FreeFds(sk)) ELSE INVALID_HANDLER
           sk1 == IF ok
                  THEN [sk EXCEPT ![fd] = [BlankSock EXCEPT !.kind = kind,
                              !.conn = IF kind = "dgram" THEN "ext" ELSE "none"]]
                  ELSE sk
           id  == GetInode(sk1, fd, fstatOk)
           bad == fd = INVALID_HANDLER \/ id = INVALID_INODE
       IN  /\ sk' = sk1
           /\ calls' = IF ok THEN << <<"socket", fd>>, <<"fstat", fd>> >>
                             ELSE << <<"socket", fd>> >>
           /\ IF bad
              THEN /\ res' = InvalidHandleErr          \* the constructor throws: no object
                   /\ UNCHANGED <<cls, hsock, inode>>
              ELSE /\ res' = NoRes
                   /\ cls'   = [cls EXCEPT ![h] = kind]
                   /\ hsock' = [hsock EXCEPT ![h] = fd]
                   /\ inode' = [inode EXCEPT ![h] = id]
    /\ cur' = Op("acquire")
    /\ UNCHANGED <<pc, loc>>

TerminatedFdKept(d) == d

\* hsock_ after terminate() has run on a handle whose hsock_ was d
TerminatedFd(d) == INVALID_HANDLER

\* A constructor whose set-up step fails after the base object was built:
\* DatagramSock(address) / StreamServerSock(address) when bind() fails,
\* StreamClientSock(address) when connect() fails.  It calls terminate() and
\* throws; unwinding then runs ~SocketBase on the base object, which calls
\* terminate() again.  No object is left.
SetupFails(h, kind) ==
    /\ pc = "idle" /\ NewSlot(h)
    /\ FreeFds(sk) # {}
    /\ LET fd  == MinOf(FreeFds(sk))
           sk1 == [sk EXCEPT ![fd] = [BlankSock EXCEPT !.kind = kind]]
           fx1 == TerminateFx(fd, sk1)                       \* terminate() in the constructor
           fx2 == TerminateFx(TerminatedFd(fd), fx1[1])      \* ~SocketBase
       IN  /\ sk' = fx2[1]
           /\ calls' = << <<"socket", fd>>, <<"fstat", fd>>,
                          <<(IF kind = "dgram" THEN "bind" ELSE "connect"), fd>> >>
                          \o fx1[2] \o fx2[2]
    /\ res' = SysErr("bind() / connect()")
    /\ cur' = Op("setup")
    /\ UNCHANGED <<cls, hsock, inode, pc, loc>>

\* SocketBase::SocketBase(HandleSocket) as used by getConnection: accept()
\* returned a new descriptor, which the new object wraps.
FromExisting(h, fstatOk) ==
    /\ pc = "idle" /\ NewSlot(h)
    /\ FreeFds(sk) # {}
    /\ LET fd  == MinOf(FreeFds(sk))
           sk1 == [sk EXCEPT ![fd] = [BlankSock EXCEPT !.kind = "stream", !.conn = "ext"]]
       IN  /\ sk' = sk1
           /\ cls'   = [cls EXCEPT ![h] = "stream"]
           /\ hsock' = [hsock EXCEPT ![h] = fd]
           /\ inode' = [inode EXCEPT ![h] = GetInode(sk1, fd, fstatOk)]
           /\ calls' = << <<"accept", fd>>, <<"fstat", fd>> >>
    /\ cur' = Op("fromExisting") /\ res' = NoRes
    /\ UNCHANGED <<pc, loc>>

InvalidateKeepsFd(hs, ino, h) ==
    <<hs, [ino EXCEPT ![h] = 0]>>

InvalidateKeepsInode(hs, ino, h) ==
    <<[hs EXCEPT ![h] = INVALID_HANDLER], ino>>

\* SocketBase::invalidate on handle h, given the fields of all handles
Invalidate(hs, ino, h) ==
    <<[hs EXCEPT ![h] = INVALID_HANDLER], [ino EXCEPT ![h] = 0]>>

\* SocketBase::SocketBase(SocketBase&& other): b is built from a
Move(a, b) ==
    /\ pc = "idle" /\ cls[a] # "none" /\ NewSlot(b)
    /\ LET hs  == [hsock EXCEPT ![b] = hsock[a]]
           ino == [inode EXCEPT ![b] = inode[a]]
           inv == Invalidate(hs, ino, a)
       IN  /\ hsock' = inv[1]
           /\ inode' = inv[2]
    /\ cls' = [cls EXCEPT ![b] = IF cls[a] = "stream" THEN "stream" ELSE "base"]
    /\ cur' = Op("move") /\ res' = NoRes /\ calls' = <<>>
    /\ UNCHANGED <<sk, pc, loc>>

\* SocketBase::close
Close(h) ==
    /\ pc = "idle" /\ cls[h] # "none"
    /\ LET fx == CloseFx(hsock[h], sk)
       IN  /\ inode' = [inode EXCEPT ![h] = 0]
           /\ sk' = fx[1] /\ calls' = fx[2]
           /\ hsock' = [hsock EXCEPT ![h] = INVALID_HANDLER]
    /\ cur' = Op("close") /\ res' = NoRes
    /\ UNCHANGED <<cls, pc, loc>>

\* SocketBase::terminate
Terminate(h) ==
    /\ pc = "idle" /\ cls[h] # "none"
    /\ LET fx == TerminateFx(hsock[h], sk)
       IN  /\ inode' = [inode EXCEPT ![h] = 0]
           /\ sk' = fx[1] /\ calls' = fx[2]
           /\ hsock' = [hsock EXCEPT ![h] = INVALID_HANDLER]
    /\ cur' = Op("terminate") /\ res' = NoRes
    /\ UNCHANGED <<cls, pc, loc>>

\* Destruction of the object in slot h: DatagramSock::~DatagramSock runs
\* first for a DatagramSock, then SocketBase::~SocketBase.
Destroy(h) ==
    /\ pc = "idle" /\ cls[h] # "none"
    /\ LET derived == cls[h] = "dgram" /\ hsock[h] # INVALID_HANDLER
           pre     == IF derived THEN << <<"getsockname", hsock[h]>> >> ELSE <<>>
           fx1     == IF derived THEN TerminateFx(hsock[h], sk) ELSE <<sk, <<>> >>
           d1      == IF derived THEN TerminatedFd(hsock[h]) ELSE hsock[h]
           fx2     == TerminateFx(d1, fx1[1])              \* ~SocketBase
       IN  /\ sk' = fx2[1]
           /\ calls' = pre \o fx1[2] \o fx2[2]
    /\ hsock' = [hsock EXCEPT ![h] = INVALID_HANDLER]
    /\ inode' = [inode EXCEPT ![h] = 0]
    /\ cls'   = [cls EXCEPT ![h] = "none"]
    /\ cur' = Op("destroy") /\ res' = NoRes
    /\ UNCHANGED <<pc, loc>>

\* StreamSock::createPair / DatagramSock::createPair on h; n is the slot of
\* the object the returned shared_ptr owns.
CreatePair(h, n, pairOk, fstatOk1, fstatOk2) ==
    /\ pc = "idle" /\ cls[h] \in Kinds /\ NewSlot(n)
    /\ LET ok == pairOk /\ Cardinality(FreeFds(sk)) >= 2
       IN  IF ok
           THEN LET p0   == MinOf(FreeFds(sk))
                    p1   == MinOf(FreeFds(sk) \ {p0})
                    sk1  == [sk EXCEPT
                               ![p0] = [BlankSock EXCEPT !.kind = cls[h], !.conn = "pair", !.peer = p1],
                               ![p1] = [BlankSock EXCEPT !.kind = cls[h], !.conn = "pair", !.peer = p0]]
                    fx   == TerminateFx(hsock[h], sk1)
                IN  /\ sk' = fx[1]
                    /\ calls' = << <<"socketpair", p0>> >> \o fx[2]
                                   \o << <<"fstat", p0>>, <<"fstat", p1>> >>
                    /\ hsock' = [hsock EXCEPT ![h] = p0, ![n] = p1]
                    /\ inode' = [inode EXCEPT ![h] = GetInode(fx[1], p0, fstatOk1),
                                              ![n] = GetInode(fx[1], p1, fstatOk2)]
                    /\ cls'   = [cls EXCEPT ![n] = cls[h]]
                    /\ res'   = Value(n)
           ELSE /\ calls' = << <<"socketpair", INVALID_HANDLER>> >>
                /\ res' = Value(0)                         \* nullptr
                /\ UNCHANGED <<cls, hsock, inode, sk>>
    /\ cur' = Op("createPair")
    /\ UNCHANGED <<pc, loc>>

\* ===================================================== blocking I/O engine
Timeouts    == WAIT_DATA_FOREVER .. MaxTimeout
Lengths     == 0 .. MaxBytes
Payloads    == UNION {[1 .. k -> Bytes] : k \in 0 .. MaxBytes}
Min(a, b)   == IF a < b THEN a ELSE b
Max(a, b)   == IF a > b THEN a ELSE b

\* C++ integer division (truncation toward zero), divisor positive
CDiv(a, b) == IF a >= 0 THEN a \div b ELSE -((-a) \div b)

\* timeval tm = { .tv_sec = timeout / 1000, .tv_usec = (timeout - (tm.tv_sec * 1000)) * 1000 }
MkTimeval(timeout) ==
    LET sec == CDiv(timeout, 1000)
    IN  [tv_sec |-> sec, tv_usec |-> (timeout - (sec * 1000)) * 1000]

\* Linux select(): the timeval is rewritten with the time not slept
TmUsec(tm)     == (tm.tv_sec * 1000 * 1000) + tm.tv_usec
TmElapse(tm, d) ==
    LET left == Max(TmUsec(tm) - d, 0)
    IN  [tv_sec |-> left \div (1000 * 1000), tv_usec |-> left % (1000 * 1000)]

\* recorded OS calls of an I/O operation: each distinct call once, in order of first issue
AddCall(cs, c) == IF \E k \in 1 .. Len(cs) : cs[k] = c THEN cs ELSE Append(cs, c)

OsInqNothing(socks, fd) == IF IsOpen(socks, fd) THEN 0 ELSE -1

\* ioctl(fd, FIONREAD): bytes queued on a stream socket, payload length of the
\* first queued datagram on a datagram socket; -1 when fd is not a usable descriptor
OsInq(socks, fd) ==
    IF ~IsOpen(socks, fd) THEN -1
    ELSE IF socks[fd].kind = "stream" THEN Len(socks[fd].rq)
    ELSE IF socks[fd].rq = <<>> THEN 0 ELSE Len(Head(socks[fd].rq))

\* select() read set: data queued, end-of-file, or a stream socket that is not connected
Readable(socks, fd) ==
    /\ IsOpen(socks, fd)
    /\ \/ socks[fd].rq # <<>>
       \/ socks[fd].hup
       \/ socks[fd].kind = "stream" /\ socks[fd].conn = "none"

\* recv(fd, buf, len, flags).  n = -2 stands for "the call stays blocked";
\* n = -1 is a failure (EAGAIN for a non-blocking call on an empty queue,
\* ENOTCONN on an unconnected stream socket, EBADF).
OsRecv(socks, fd, len, nonblock) ==
    LET s == socks[fd]
        none(n) == [n |-> n, data |-> <<>>, socks |-> socks]
    IN  IF ~IsOpen(socks, fd) THEN none(-1)
        ELSE IF s.kind = "stream"
        THEN IF s.rq # <<>>
             THEN LET n == Min(len, Len(s.rq))
                  IN  [n |-> n, data |-> SubSeq(s.rq, 1, n),
                       socks |-> [socks EXCEPT ![fd].rq = SubSeq(s.rq, n + 1, Len(s.rq))]]
             ELSE IF s.hup THEN none(0)
             ELSE IF s.conn = "none" THEN none(-1)
             ELSE IF nonblock \/ s.nb THEN none(-1) ELSE none(-2)
        ELSE IF s.rq # <<>>
             THEN LET n == Min(len, Len(Head(s.rq)))
                  IN  [n |-> n, data |-> SubSeq(Head(s.rq), 1, n),
                       socks |-> [socks EXCEPT ![fd].rq = Tail(s.rq)]]
             ELSE IF nonblock \/ s.nb THEN none(-1) ELSE none(-2)

OsRecvAllFirstByte(socks, fd, len) == OsRecv(socks, fd, 1, FALSE)

\* recv(fd, buf, len, MSG_WAITALL) on a stream socket returns once len bytes
\* are queued or the stream ended; datagram sockets ignore the flag.
OsRecvAll(socks, fd, len) ==
    LET s == socks[fd]
    IN  IF IsOpen(socks, fd) /\ s.kind = "stream" /\ s.rq # <<>> /\ Len(s.rq) < len /\ ~s.hup
           /\ ~s.nb
        THEN [n |-> -2, data |-> <<>>, socks |-> socks]
        ELSE OsRecv(socks, fd, len, FALSE)

\* leave the operation: the arguments and locals go out of scope
Return(r) ==
    /\ pc'  = "idle"
    /\ res' = r
    /\ cur' = Op(cur.op)
    /\ loc' = [NoLoc EXCEPT !.buf = loc.buf]

Enter(o, h, bufOk, bytes, timeout) ==
    [Op(o) EXCEPT !.h = h, !.bytes = bytes, !.timeout = timeout, !.bufOk = bufOk]

\* SocketBase::read, from the call to the first point where it can block
ReadCall(h, bufOk, bytes, timeout) ==
    /\ pc = "idle" /\ cls[h] # "none"
    /\ UNCHANGED <<cls, hsock, inode>>
    /\ IF ~bufOk \/ bytes <= 0
       THEN /\ pc' = "idle" /\ res' = InvArg("'buffer' is null or 'bytes' is 0")
            /\ cur' = Op("read") /\ calls' = <<>> /\ loc' = NoLoc
            /\ UNCHANGED sk
       ELSE IF hsock[h] = INVALID_HANDLER \/ inode[h] = INVALID_INODE
       THEN /\ pc' = "idle" /\ res' = InvalidHandleErr
            /\ cur' = Op("read") /\ calls' = <<>> /\ loc' = NoLoc
            /\ UNCHANGED sk
       ELSE IF timeout = DONT_WAIT
       THEN LET r == OsRecv(sk, hsock[h], bytes, TRUE)
            IN  /\ sk' = r.socks
                /\ calls' = << <<"recv", hsock[h]>> >>
                /\ pc' = "idle" /\ res' = Value(r.n)       \* lesen = recv(...); return lesen
                /\ cur' = Op("read")
                /\ loc' = [NoLoc EXCEPT !.buf = r.data]
       ELSE IF timeout = WAIT_DATA_FOREVER
       THEN /\ pc' = "rd_wall"
            /\ cur' = Enter("read", h, bufOk, bytes, timeout)
            /\ calls' = << <<"recv", hsock[h]>> >>
            /\ loc' = NoLoc /\ res' = NoRes
            /\ UNCHANGED sk
       ELSE /\ pc' = "rd_loop"
            /\ cur' = Enter("read", h, bufOk, bytes, timeout)
            /\ calls' = <<>>
            /\ loc' = [NoLoc EXCEPT !.tm = MkTimeval(timeout)]
            /\ res' = NoRes
            /\ UNCHANGED sk

\* read, WAIT_DATA_FOREVER: the blocking recv(MSG_WAITALL) returns
RdWaitAll ==
    /\ pc = "rd_wall"
    /\ LET r == OsRecvAll(sk, hsock[cur.h], cur.bytes)
       IN  /\ r.n # -2
           /\ sk' = r.socks
           /\ pc' = "idle" /\ res' = Value(r.n) /\ cur' = Op("read")
           /\ loc' = [NoLoc EXCEPT !.buf = r.data]
    /\ UNCHANGED <<cls, hsock, inode, calls>>

\* read, WAIT_DATA_FOREVER: a signal handler runs while recv(MSG_WAITALL) is
\* blocked: recv returns what it has copied so far, or -1 (EINTR) if nothing.
RdWaitAllIntr ==
    /\ pc = "rd_wall"
    /\ OsRecvAll(sk, hsock[cur.h], cur.bytes).n = -2
    /\ LET r == OsRecv(sk, hsock[cur.h], cur.bytes, TRUE)
       IN  /\ sk' = r.socks
           /\ pc' = "idle" /\ res' = Value(r.n) /\ cur' = Op("read")
           /\ loc' = [NoLoc EXCEPT !.buf = r.data]
    /\ UNCHANGED <<cls, hsock, inode, calls>>

\* read, bounded timeout: the loop test, then pending()'s ioctl(FIONREAD)
RdLoop ==
    /\ pc = "rd_loop"
    /\ IF loc.lesen < cur.bytes /\ loc.tm.tv_sec + loc.tm.tv_usec > 0
       THEN LET count == OsInq(sk, hsock[cur.h])
            IN  /\ calls' = AddCall(calls, <<"ioctl", hsock[cur.h]>>)
                /\ IF count < 0
                   THEN Return(InvArg("The socket is in an invalid state"))
                   ELSE /\ loc' = [loc EXCEPT !.count = count]
                        /\ pc'  = IF count = 0 THEN "pn_drain" ELSE "rd_recv"
                        /\ UNCHANGED <<cur, res>>
       ELSE /\ Return(Value(loc.lesen))
            /\ UNCHANGED calls
    /\ UNCHANGED <<cls, hsock, inode, sk>>

\* SocketBase::pending: the call and its ioctl(FIONREAD)
PendingCall(h) ==
    /\ pc = "idle" /\ cls[h] # "none"
    /\ LET count == OsInq(sk, hsock[h])
       IN  /\ calls' = << <<"ioctl", hsock[h]>> >>
           /\ IF count < 0
              THEN /\ pc' = "idle" /\ res' = InvArg("The socket is in an invalid state")
                   /\ cur' = Op("pending") /\ loc' = NoLoc
              ELSE IF count = 0
              THEN /\ pc' = "pn_drain" /\ res' = NoRes
                   /\ cur' = Enter("pending", h, TRUE, 0, 0)
                   /\ loc' = [NoLoc EXCEPT !.count = count]
              ELSE /\ pc' = "idle" /\ res' = Value(count)
                   /\ cur' = Op("pending") /\ loc' = NoLoc
    /\ UNCHANGED <<cls, hsock, inode, sk>>

OsDrainNothing(socks, fd) == socks

\* recvfrom(fd, 0, 0, MSG_DONTWAIT, 0, 0): a zero-length non-blocking receive.
\* On a datagram socket it takes the first queued datagram off the queue.
OsDrain(socks, fd) == OsRecv(socks, fd, 0, TRUE).socks

\* SocketBase::pending, count == 0: the zero-length recvfrom, then return count
PnDrain ==
    /\ pc = "pn_drain"
    /\ sk' = OsDrain(sk, hsock[cur.h])
    /\ IF cur.op = "read"
       THEN /\ pc' = "rd_sel"                       \* if (!pending()) ... select
            /\ calls' = AddCall(AddCall(calls, <<"recvfrom", hsock[cur.h]>>), <<"select", hsock[cur.h]>>)
            /\ UNCHANGED <<cur, res, loc>>
       ELSE /\ Return(Value(loc.count))
            /\ calls' = AddCall(calls, <<"recvfrom", hsock[cur.h]>>)
    /\ UNCHANGED <<cls, hsock, inode>>

\* ---- select(): the caller is suspended in it while pc is rd_sel or wd_sel
InSelect == pc \in {"rd_sel", "wd_sel"}
\* tm_ptr != nullptr: the wait has a deadline
Timed    == ~(cur.op = "waitData" /\ cur.timeout = WAIT_DATA_FOREVER)

\* SocketBase::waitData: validity test, then select()
WaitDataCall(h, timeout) ==
    /\ pc = "idle" /\ cls[h] # "none"
    /\ IF hsock[h] = INVALID_HANDLER \/ inode[h] = INVALID_INODE
       THEN /\ pc' = "idle" /\ res' = InvalidHandleErr
            /\ cur' = Op("waitData") /\ calls' = <<>> /\ loc' = NoLoc
       ELSE /\ pc' = "wd_sel" /\ res' = NoRes
            /\ cur' = Enter("waitData", h, TRUE, 0, timeout)
            /\ calls' = << <<"select", hsock[h]>> >>
            /\ loc' = [NoLoc EXCEPT !.tm = MkTimeval(timeout)]
    /\ UNCHANGED <<cls, hsock, inode, sk>>

\* time passes while select() sleeps
SelTick ==
    /\ InSelect /\ Timed
    /\ ~Readable(sk, hsock[cur.h])
    /\ TmUsec(loc.tm) > 0
    /\ loc' = [loc EXCEPT !.tm = TmElapse(loc.tm, TickUsec)]
    /\ UNCHANGED <<cls, hsock, inode, sk, cur, res, calls, pc>>

\* select() returns 1: the descriptor is readable
SelReady ==
    /\ InSelect
    /\ Readable(sk, hsock[cur.h])
    /\ IF cur.op = "read"
       THEN /\ pc' = "rd_recv"
            /\ UNCHANGED <<cur, res, loc>>
       ELSE LET rt == IF Timed                     \* rt > 0 && tm_ptr != nullptr
                      THEN (loc.tm.tv_sec * 1000) + (loc.tm.tv_usec \div 1000)
                      ELSE 1
            IN  Return(Value(rt))
    /\ UNCHANGED <<cls, hsock, inode, sk, calls>>

\* select() returns 0: the time is up
SelTimeout ==
    /\ InSelect /\ Timed
    /\ ~Readable(sk, hsock[cur.h])
    /\ TmUsec(loc.tm) = 0
    /\ IF cur.op = "read"
       THEN Return(Value(loc.lesen))               \* break
       ELSE Return(Value(0))
    /\ UNCHANGED <<cls, hsock, inode, sk, calls>>

\* select() returns -1 with errno EINTR: a signal handler ran while it slept.
\* The timeval holds the time not slept, which is less than before.
SelEintrTmKept(tm) == tm

SelEintrTmRestart(tm) == MkTimeval(MaxTimeout)

SelEintrTm(tm) == TmElapse(tm, TickUsec)

SelEintr ==
    /\ InSelect
    /\ ~Readable(sk, hsock[cur.h])
    /\ Timed => TmUsec(loc.tm) > 0
    /\ loc' = IF Timed THEN [loc EXCEPT !.tm = SelEintrTm(loc.tm)] ELSE loc
    /\ pc'  = IF cur.op = "read" THEN "rd_loop" ELSE "wd_sel"      \* continue / do-while
    /\ UNCHANGED <<cls, hsock, inode, sk, cur, res, calls>>

RdRecvEofContinues ==
    /\ pc = "rd_recv"
    /\ LET r == OsRecv(sk, hsock[cur.h], cur.bytes - loc.lesen, FALSE)
       IN  /\ r.n # -2
           /\ sk' = r.socks
           /\ calls' = AddCall(calls, <<"recv", hsock[cur.h]>>)
           /\ IF r.n < 0
              THEN Return(SysErr("recv()"))
              ELSE /\ loc' = [loc EXCEPT !.lesen = loc.lesen + r.n, !.buf = loc.buf \o r.data]
                   /\ pc'  = "rd_loop"
                   /\ UNCHANGED <<cur, res>>
    /\ UNCHANGED <<cls, hsock, inode>>

\* read, bounded timeout: recv() of the bytes still missing, then the tests on err
RdRecv ==
    /\ pc = "rd_recv"
    /\ LET r == OsRecv(sk, hsock[cur.h], cur.bytes - loc.lesen, FALSE)
       IN  /\ r.n # -2
           /\ sk' = r.socks
           /\ calls' = AddCall(calls, <<"recv", hsock[cur.h]>>)
           /\ IF r.n < 0
              THEN Return(SysErr("recv()"))
              ELSE IF r.n = 0
              THEN Return(Value(loc.lesen))        \* EOF: break
              ELSE /\ loc' = [loc EXCEPT !.lesen = loc.lesen + r.n, !.buf = loc.buf \o r.data]
                   /\ pc'  = "rd_loop"
                   /\ UNCHANGED <<cur, res>>
    /\ UNCHANGED <<cls, hsock, inode>>

\* send(fd, data, len, flags) when the remote end has room for `room` bytes.
\* n = -1: failure (EAGAIN, EPIPE, ENOTCONN, EBADF); n = -2: the call stays blocked.
OsSend(socks, fd, data, nonblock, room) ==
    LET s       == socks[fd]
        len     == Len(data)
        fail    == [n |-> -1, socks |-> socks]
        block   == [n |-> -2, socks |-> socks]
    IN  IF ~IsOpen(socks, fd) \/ s.conn = "none" \/ s.hup THEN fail
        ELSE IF s.conn = "ext"
        THEN IF s.kind = "dgram" THEN fail                      \* no destination
             ELSE IF ~nonblock THEN [n |-> len, socks |-> socks]
             ELSE IF room = 0 THEN fail
             ELSE [n |-> Min(len, room), socks |-> socks]
        ELSE LET p == s.peer
             IN  IF s.kind = "dgram"
                 THEN IF Len(socks[p].rq) < MaxQueue
                      THEN [n |-> len, socks |-> [socks EXCEPT ![p].rq = Append(@, data)]]
                      ELSE IF nonblock THEN fail ELSE block
                 ELSE LET space == MaxQueue - Len(socks[p].rq)
                          n     == Min(len, space)
                          put   == [socks EXCEPT ![p].rq = @ \o SubSeq(data, 1, n)]
                      IN  IF space = 0 THEN (IF nonblock THEN fail ELSE block)
                          ELSE IF n = len \/ nonblock THEN [n |-> n, socks |-> put]
                          ELSE [n |-> -2, socks |-> put]

\* The room the remote end may have for a send: it is the model's choice only
\* for a non-blocking send on a stream whose remote end is outside the process.
SendRoom(socks, fd, nonblock) ==
    IF IsOpen(socks, fd) /\ socks[fd].conn = "ext" /\ socks[fd].kind = "stream" /\ nonblock
    THEN Lengths ELSE {0}

SendFlagsSignalling(writeMode) ==
    IF writeMode = WRITE_DONT_WAIT THEN {"MSG_DONTWAIT"} ELSE {}

\* int flags = MSG_NOSIGNAL; if (writeMode == WRITE_DONT_WAIT) flags |= MSG_DONTWAIT;
SendFlags(writeMode) ==
    {"MSG_NOSIGNAL"} \cup (IF writeMode = WRITE_DONT_WAIT THEN {"MSG_DONTWAIT"} ELSE {})

\* send() on a stream socket whose connection has been shut down fails with
\* EPIPE and, unless MSG_NOSIGNAL is given, raises SIGPIPE, whose default
\* disposition terminates the process.
OsSigpipe(socks, fd, flags) ==
    /\ IsOpen(socks, fd) /\ socks[fd].kind = "stream" /\ socks[fd].hup
    /\ "MSG_NOSIGNAL" \notin flags

\* a send() that does not block: MSG_DONTWAIT given, or O_NONBLOCK set on the descriptor
NonBlocking(socks, fd, flags) ==
    "MSG_DONTWAIT" \in flags \/ (IsOpen(socks, fd) /\ socks[fd].nb)

\* SocketBase::write
WriteCall(h, bufOk, data, writeMode) ==
    /\ pc = "idle" /\ cls[h] # "none"
    /\ UNCHANGED <<cls, hsock, inode>>
    /\ IF ~bufOk \/ Len(data) <= 0
       THEN /\ pc' = "idle" /\ res' = InvArg("'buffer' is null or 'bytes' is 0")
            /\ cur' = Op("write") /\ calls' = <<>> /\ loc' = NoLoc
            /\ UNCHANGED sk
       ELSE IF hsock[h] = INVALID_HANDLER \/ inode[h] = INVALID_INODE
       THEN /\ pc' = "idle" /\ res' = InvalidHandleErr
            /\ cur' = Op("write") /\ calls' = <<>> /\ loc' = NoLoc
            /\ UNCHANGED sk
       ELSE IF OsSigpipe(sk, hsock[h], SendFlags(writeMode))
       THEN /\ pc' = "killed" /\ res' = NoRes             \* SIGPIPE: the process ends
            /\ cur' = Enter("write", h, bufOk, Len(data), writeMode)
            /\ calls' = << <<"send", hsock[h]>> >> /\ loc' = NoLoc
            /\ UNCHANGED sk
       ELSE \E room \in SendRoom(sk, hsock[h], NonBlocking(sk, hsock[h], SendFlags(writeMode))) :
            LET r == OsSend(sk, hsock[h], data, NonBlocking(sk, hsock[h], SendFlags(writeMode)), room)
            IN  /\ sk' = r.socks
                /\ calls' = << <<"send", hsock[h]>> >>
                /\ loc' = NoLoc
                /\ IF r.n = -2
                   THEN /\ pc' = "wr_block" /\ res' = NoRes
                        /\ cur' = Enter("write", h, bufOk, Len(data), writeMode)
                   ELSE /\ pc' = "idle" /\ cur' = Op("write")
                        /\ res' = IF r.n < 0 THEN SysErr("send()") ELSE Value(r.n)

\* ---- socket options
\* SocketBase::getBufferLength: argument test, validity test, getsockopt().
\* The length reported is the capacity the socket has in this model.
GetBufferLength(h, typeOk, optOk) ==
    /\ pc = "idle" /\ cls[h] # "none"
    /\ IF ~typeOk
       THEN res' = InvArg("'bufType' is invalid.") /\ calls' = <<>>
       ELSE IF hsock[h] = INVALID_HANDLER \/ inode[h] = INVALID_INODE
       THEN res' = InvalidHandleErr /\ calls' = <<>>
       ELSE /\ calls' = << <<"getsockopt", hsock[h]>> >>
            /\ res' = IF optOk /\ IsOpen(sk, hsock[h]) THEN Value(MaxQueue) ELSE SysErr("getsockopt()")
    /\ cur' = Op("getBufferLength") /\ loc' = NoLoc
    /\ UNCHANGED <<cls, hsock, inode, sk, pc>>

\* SocketBase::setBufferLength: argument test, validity test, setsockopt().
\* The capacity of a queue is a fixed bound of this model, whatever is asked for.
SetBufferLength(h, typeOk, optOk) ==
    /\ pc = "idle" /\ cls[h] # "none"
    /\ IF ~typeOk
       THEN res' = InvArg("setBufferLength: 'buftype' is invalid.") /\ calls' = <<>>
       ELSE IF hsock[h] = INVALID_HANDLER \/ inode[h] = INVALID_INODE
       THEN res' = InvalidHandleErr /\ calls' = <<>>
       ELSE /\ calls' = << <<"setsockopt", hsock[h]>> >>
            /\ res' = IF optOk /\ IsOpen(sk, hsock[h]) THEN NoRes
                      ELSE SysErr("setBufferLength: error in setsockopt()")
    /\ cur' = Op("setBufferLength") /\ loc' = NoLoc
    /\ UNCHANGED <<cls, hsock, inode, sk, pc>>

SetIomodeRequeries(h, block) ==
    /\ pc = "idle" /\ cls[h] # "none"
    /\ IF GetInode(sk, hsock[h], TRUE) = INVALID_INODE
       THEN res' = InvalidHandleErr /\ calls' = << <<"fstat", hsock[h]>> >> /\ UNCHANGED <<sk, inode>>
       ELSE /\ calls' = << <<"fstat", hsock[h]>>, <<"fcntl", hsock[h]>> >>
            /\ inode' = [inode EXCEPT ![h] = GetInode(sk, hsock[h], TRUE)]
            /\ res' = NoRes
            /\ sk' = [sk EXCEPT ![hsock[h]].nb = ~block]
    /\ cur' = Op("setIomode") /\ loc' = NoLoc
    /\ UNCHANGED <<cls, hsock, pc>>

\* SocketBase::setIomode: validity test, fcntl(F_GETFL), fcntl(F_SETFL) with
\* O_NONBLOCK cleared (IOMODE_BLOCK) or set; the results of fcntl are not tested
SetIomode(h, block) ==
    /\ pc = "idle" /\ cls[h] # "none"
    /\ IF hsock[h] = INVALID_HANDLER \/ inode[h] = INVALID_INODE
       THEN res' = InvalidHandleErr /\ calls' = <<>> /\ UNCHANGED sk
       ELSE /\ calls' = << <<"fcntl", hsock[h]>> >>
            /\ res' = NoRes
            /\ sk' = IF IsOpen(sk, hsock[h]) THEN [sk EXCEPT ![hsock[h]].nb = ~block] ELSE sk
    /\ cur' = Op("setIomode") /\ loc' = NoLoc
    /\ UNCHANGED <<cls, hsock, inode, pc>>

\* ---- the remote end of a connection that leaves this process
EnvSend(fd, data) ==
    /\ IsOpen(sk, fd) /\ sk[fd].conn = "ext" /\ ~sk[fd].hup
    /\ IF sk[fd].kind = "stream"
       THEN /\ Len(data) >= 1 /\ Len(sk[fd].rq) + Len(data) <= MaxQueue
            /\ sk' = [sk EXCEPT ![fd].rq = @ \o data]
       ELSE /\ Len(sk[fd].rq) < MaxQueue
            /\ sk' = [sk EXCEPT ![fd].rq = Append(@, data)]
    /\ UNCHANGED <<cls, hsock, inode, cur, res, calls, pc, loc>>

EnvClose(fd) ==
    /\ IsOpen(sk, fd) /\ sk[fd].conn = "ext" /\ sk[fd].kind = "stream" /\ ~sk[fd].hup
    /\ sk' = [sk EXCEPT ![fd].hup = TRUE]
    /\ UNCHANGED <<cls, hsock, inode, cur, res, calls, pc, loc>>

\* ---- the states the I/O engine is explored from: one connection of each
\* kind, each a state the life cycle above reaches.  While it runs, handles are
\* closed but none is created.
\* accepted stream connection (getConnection)
IoInitAccepted ==
    /\ cls   = [h \in Handles |-> IF h = 1 THEN "stream" ELSE "none"]
    /\ hsock = [h \in Handles |-> IF h = 1 THEN 0 ELSE INVALID_HANDLER]
    /\ inode = [h \in Handles |-> IF h = 1 THEN StIno(0) ELSE 0]
    /\ sk = [fd \in FDs |-> IF fd = 0 THEN [BlankSock EXCEPT !.kind = "stream", !.conn = "ext"]
                            ELSE BlankSock]
    /\ cur = Op("fromExisting") /\ calls = << <<"accept", 0>>, <<"fstat", 0>> >>
    /\ res = NoRes

\* bound datagram socket (DatagramSock(address))
IoInitDgram ==
    /\ cls   = [h \in Handles |-> IF h = 1 THEN "dgram" ELSE "none"]
    /\ hsock = [h \in Handles |-> IF h = 1 THEN 0 ELSE INVALID_HANDLER]
    /\ inode = [h \in Handles |-> IF h = 1 THEN StIno(0) ELSE 0]
    /\ sk = [fd \in FDs |-> IF fd = 0 THEN [BlankSock EXCEPT !.kind = "dgram", !.conn = "ext"]
                            ELSE BlankSock]
    /\ cur = Op("acquire") /\ calls = << <<"socket", 0>>, <<"fstat", 0>> >>
    /\ res = NoRes

\* connected pair (createPair on a handle that held descriptor 0)
IoInitPair(kind) ==
    /\ cls   = [h \in Handles |-> IF h <= 2 THEN kind ELSE "none"]
    /\ hsock = [h \in Handles |-> IF h <= 2 THEN h ELSE INVALID_HANDLER]
    /\ inode = [h \in Handles |-> IF h <= 2 THEN StIno(h) ELSE 0]
    /\ sk = [fd \in FDs |->
               IF fd = 1 THEN [BlankSock EXCEPT !.kind = kind, !.conn = "pair", !.peer = 2]
               ELSE IF fd = 2 THEN [BlankSock EXCEPT !.kind = kind, !.conn = "pair", !.peer = 1]
               ELSE BlankSock]
    /\ cur = Op("createPair") /\ res = Value(2)
    /\ calls = << <<"socketpair", 1>>, <<"shutdown", 0>>, <<"close", 0>>, <<"fstat", 1>>, <<"fstat", 2>> >>

IoInit ==
    /\ \/ IoInitAccepted
       \/ IoInitDgram
       \/ \E k \in Kinds : IoInitPair(k)
    /\ pc = "idle" /\ loc = NoLoc

IoNext ==
    \/ \E h \in Handles, b \in BOOLEAN, n \in Lengths, t \in Timeouts : ReadCall(h, b, n, t)
    \/ RdWaitAll
    \/ RdWaitAllIntr
    \/ RdLoop
    \/ \E h \in Handles : PendingCall(h)
    \/ PnDrain
    \/ \E h \in Handles, t \in Timeouts : WaitDataCall(h, t)
    \/ SelTick
    \/ SelReady
    \/ SelTimeout
    \/ SelEintr
    \/ RdRecv
    \/ \E h \in Handles, b \in BOOLEAN, d \in Payloads, m \in {WRITE_DONT_WAIT, WRITE_WAIT_QUEUED} :
          WriteCall(h, b, d, m)
    \/ \E fd \in FDs, d \in Payloads : EnvSend(fd, d)
    \/ \E fd \in FDs : EnvClose(fd)
    \/ \E h \in Handles : Close(h)

SpecIO == IoInit /\ [][IoNext]_vars

\* ---- stream connections carrying two distinguishable byte values, so
\* that the order of the bytes received is visible.  Valid buffers only.
StreamBytes    == {"a", "b"}
StreamPayloads == UNION {[1 .. k -> StreamBytes] : k \in 1 .. MaxBytes}

StreamInit ==
    /\ \/ IoInitAccepted
       \/ IoInitPair("stream")
    /\ pc = "idle" /\ loc = NoLoc

StreamNext ==
    \/ \E h \in Handles, n \in Lengths \ {0}, t \in Timeouts : ReadCall(h, TRUE, n, t)
    \/ RdWaitAll
    \/ RdWaitAllIntr
    \/ RdLoop
    \/ PnDrain
    \/ SelTick
    \/ SelReady
    \/ SelTimeout
    \/ SelEintr
    \/ RdRecv
    \/ \E h \in Handles, d \in StreamPayloads, m \in {WRITE_DONT_WAIT, WRITE_WAIT_QUEUED} :
          WriteCall(h, TRUE, d, m)
    \/ \E fd \in FDs, d \in StreamPayloads : EnvSend(fd, d)
    \/ \E fd \in FDs : EnvClose(fd)

SpecStream == StreamInit /\ [][StreamNext]_vars

\* ======================================================== waitEvent
MaxList == 2             \* longest socklist passed to waitEvent

\* WaitModes: WAIT_READ = POLLIN, WAIT_WRITE = POLLOUT, WAIT_READWRITE = both
WaitModes == {{"IN"}, {"OUT"}, {"IN", "OUT"}}
SockLists == UNION {[1 .. k -> Handles] : k \in 0 .. MaxList}

\* poll(): the revents of one pollfd.  A negative fd is skipped; a descriptor
\* that is not open gives POLLNVAL; POLLHUP (a stream socket that is not, or
\* no longer, connected) is reported whether asked for or not.
OsRevents(socks, fd, events) ==
    IF fd < 0 THEN {}
    ELSE IF ~IsOpen(socks, fd) THEN {"NVAL"}
    ELSE LET s    == socks[fd]
             in   == IF s.rq # <<>> \/ s.hup THEN {"IN"} ELSE {}
             out  == IF s.conn = "pair" /\ Len(socks[s.peer].rq) >= MaxQueue
                     THEN {} ELSE {"OUT"}
             hang == IF s.kind = "stream" /\ s.conn = "none" THEN {"HUP"} ELSE {}
         IN  ((in \cup out) \cap events) \cup hang

\* p_list[idx].revents for the handles of the list
PollRevents(list, events) ==
    [idx \in 1 .. Len(list) |-> OsRevents(sk, hsock[list[idx]], events)]

\* poll() would return a positive count
PollHasEvents == \E idx \in 1 .. Len(cur.list) : PollRevents(cur.list, cur.mask)[idx] # {}

LastMatch(list, revents, events) ==
    LET hits == {idx \in 1 .. Len(list) : revents[idx] \cap events # {}}
    IN  IF hits = {} THEN 0 ELSE list[CHOOSE i \in hits : \A j \in hits : j <= i]

\* for (idx = 0; idx < count; idx++) if (p_list[idx].revents & eventType) return &socklist[idx]
\* 0 stands for nullptr
FirstMatch(list, revents, events) ==
    LET hits == {idx \in 1 .. Len(list) : revents[idx] \cap events # {}}
    IN  IF hits = {} THEN 0 ELSE list[MinOf(hits)]

\* waitEvent: the tests on its arguments, then the first poll()
WaitEventCall(events, timeout, list) ==
    /\ pc = "idle"
    /\ \A idx \in 1 .. Len(list) : cls[list[idx]] # "none"
    /\ IF list = <<>> \/ events = {}
       THEN /\ pc' = "idle" /\ res' = Value(0)
            /\ cur' = Op("waitEvent") /\ calls' = <<>> /\ loc' = NoLoc
       ELSE /\ pc' = "we_poll" /\ res' = NoRes
            /\ cur' = [Op("waitEvent") EXCEPT !.timeout = timeout, !.mask = events, !.list = list]
            /\ calls' = << <<"poll", Len(list)>> >>
            /\ loc' = [NoLoc EXCEPT !.tm = MkTimeval(timeout)]
    /\ UNCHANGED <<cls, hsock, inode, sk>>

\* time passes while poll() sleeps; loc.tm is what is left of this poll() call
PollTick ==
    /\ pc = "we_poll" /\ ~PollHasEvents
    /\ TmUsec(loc.tm) > 0
    /\ loc' = [loc EXCEPT !.tm = TmElapse(loc.tm, TickUsec)]
    /\ UNCHANGED <<cls, hsock, inode, sk, cur, res, calls, pc>>

\* poll() returns -1 with errno EINTR: poll(p_list, count, timeout) is called again
PollEintr ==
    /\ pc = "we_poll" /\ ~PollHasEvents
    /\ TmUsec(loc.tm) > 0
    /\ loc' = [loc EXCEPT !.tm = MkTimeval(cur.timeout)]
    /\ UNCHANGED <<cls, hsock, inode, sk, cur, res, calls, pc>>

\* poll() returns 0: the timeout ran out
PollTimeout ==
    /\ pc = "we_poll" /\ ~PollHasEvents
    /\ TmUsec(loc.tm) = 0
    /\ Return(Value(0))
    /\ UNCHANGED <<cls, hsock, inode, sk, calls>>

\* poll() returns a positive count: the scan of p_list
PollReady ==
    /\ pc = "we_poll" /\ PollHasEvents
    /\ Return(Value(FirstMatch(cur.list, PollRevents(cur.list, cur.mask), cur.mask)))
    /\ UNCHANGED <<cls, hsock, inode, sk, calls>>

\* poll() returns -1 with another errno (ENOMEM): neither loop nor scan applies
PollFail ==
    /\ pc = "we_poll"
    /\ Return(Value(0))
    /\ UNCHANGED <<cls, hsock, inode, sk, calls>>

WaitInit == IoInit

WaitNext ==
    \/ \E m \in WaitModes, t \in 0 .. MaxTimeout, l \in SockLists : WaitEventCall(m, t, l)
    \/ PollTick
    \/ PollEintr
    \/ PollTimeout
    \/ PollReady
    \/ PollFail
    \/ \E h \in Handles, d \in Payloads : WriteCall(h, TRUE, d, WRITE_DONT_WAIT)
    \/ \E fd \in FDs, d \in Payloads : EnvSend(fd, d)
    \/ \E fd \in FDs : EnvClose(fd)
    \/ \E h \in Handles : Close(h)

SpecWait == WaitInit /\ [][WaitNext]_vars

\* accepted stream connection whose fstat() failed in getInode(): the
\* object holds the descriptor with inode_ == 0
IoInitAcceptedNoInode ==
    /\ cls   = [h \in Handles |-> IF h = 1 THEN "stream" ELSE "none"]
    /\ hsock = [h \in Handles |-> IF h = 1 THEN 0 ELSE INVALID_HANDLER]
    /\ sk = [fd \in FDs |-> IF fd = 0 THEN [BlankSock EXCEPT !.kind = "stream", !.conn = "ext"]
                            ELSE BlankSock]
    /\ inode = [h \in Handles |-> GetInode(sk, hsock[h], FALSE)]
    /\ cur = Op("fromExisting") /\ calls = << <<"accept", 0>>, <<"fstat", 0>> >>
    /\ res = NoRes

\* waitEvent explored from the connections above as well as from one whose
\* identity could not be read
WaitFaultInit ==
    /\ \/ IoInitAccepted
       \/ IoInitDgram
       \/ \E k \in Kinds : IoInitPair(k)
       \/ IoInitAcceptedNoInode
    /\ pc = "idle" /\ loc = NoLoc

SpecWaitFault == WaitFaultInit /\ [][WaitNext]_vars

\* ---- close() called by a second thread while the caller is inside select()
\* of a bounded-timeout read on the same handle.  close() is not atomic:
\* inode_ = 0 and ::close(hsock_) come first, hsock_ = INVALID_HANDLER after.
ClosingInProgress(h) ==
    /\ cls[h] # "none" /\ hsock[h] # INVALID_HANDLER /\ inode[h] = INVALID_INODE
    /\ ~IsOpen(sk, hsock[h])

\* second thread, SocketBase::close: inode_ = 0; ::close(hsock_)
XCloseBegin(h) ==
    /\ cur.op = "read" /\ pc = "rd_sel" /\ cur.h = h
    /\ hsock[h] # INVALID_HANDLER /\ IsOpen(sk, hsock[h])
    /\ inode' = [inode EXCEPT ![h] = 0]
    /\ sk' = CloseFx(hsock[h], sk)[1]
    /\ UNCHANGED <<cls, hsock, cur, res, calls, pc, loc>>

\* second thread, SocketBase::close: hsock_ = INVALID_HANDLER
XCloseEnd(h) ==
    /\ ClosingInProgress(h)
    /\ hsock' = [hsock EXCEPT ![h] = INVALID_HANDLER]
    /\ UNCHANGED <<cls, inode, sk, cur, res, calls, pc, loc>>

\* select() of the read returns 1 although the descriptor has been closed
\* meanwhile: it had found the socket readable before close() ran, or the
\* socket, which stays referenced while select() sleeps on it, became so
SelWoken ==
    /\ cur.op = "read" /\ pc = "rd_sel"
    /\ ~IsOpen(sk, hsock[cur.h])
    /\ pc' = "rd_recv"
    /\ UNCHANGED <<cls, hsock, inode, sk, cur, res, calls, loc>>

CancelNext ==
    \/ \E h \in Handles, n \in Lengths \ {0}, t \in 1 .. MaxTimeout : ReadCall(h, TRUE, n, t)
    \/ RdLoop
    \/ PnDrain
    \/ SelTick
    \/ SelReady
    \/ SelTimeout
    \/ SelEintr
    \/ RdRecv
    \/ \E fd \in FDs, d \in Payloads : EnvSend(fd, d)
    \/ \E fd \in FDs : EnvClose(fd)
    \/ \E h \in Handles : XCloseBegin(h)
    \/ \E h \in Handles : XCloseEnd(h)
    \/ SelWoken

SpecCancel == IoInit /\ [][CancelNext]_vars

\* ---- every operation that works on a descriptor without owning its life
\* cycle, explored together (with close() as the one life-cycle operation)
\* Transfers are of one byte and lists of one handle: what is transferred
\* has no part in what becomes of hsock_ and inode_.
FrameLengths  == {0, 1}
FramePayloads == {<<>>, <<"a">>}
FrameLists    == {<<>>} \cup {<<h>> : h \in Handles}

FrameNext ==
    \/ \E h \in Handles, b \in BOOLEAN, n \in FrameLengths, t \in Timeouts : ReadCall(h, b, n, t)
    \/ RdWaitAll
    \/ RdWaitAllIntr
    \/ RdLoop
    \/ \E h \in Handles : PendingCall(h)
    \/ PnDrain
    \/ \E h \in Handles, t \in Timeouts : WaitDataCall(h, t)
    \/ SelTick
    \/ SelReady
    \/ SelTimeout
    \/ SelEintr
    \/ RdRecv
    \/ \E h \in Handles, b \in BOOLEAN, d \in FramePayloads, m \in {WRITE_DONT_WAIT, WRITE_WAIT_QUEUED} :
          WriteCall(h, b, d, m)
    \/ \E fd \in FDs : EnvSend(fd, <<"a">>)
    \/ \E fd \in FDs : EnvClose(fd)
    \/ \E h \in Handles : Close(h)
    \/ \E m \in WaitModes, t \in 0 .. MaxTimeout, l \in FrameLists : WaitEventCall(m, t, l)
    \/ PollTick
    \/ PollEintr
    \/ PollTimeout
    \/ PollReady
    \/ PollFail
    \/ \E h \in Handles, t \in BOOLEAN, o \in BOOLEAN : GetBufferLength(h, t, o)
    \/ \E h \in Handles, t \in BOOLEAN, o \in BOOLEAN : SetBufferLength(h, t, o)
    \/ \E h \in Handles, b \in BOOLEAN : SetIomode(h, b)

SpecFrame == IoInit /\ [][FrameNext]_vars

\* The handle life cycle when fstat() on a descriptor the OS has just handed
\* out succeeds; socket() and socketpair() may fail.
Next ==
    \/ \E h \in Handles : DefaultCtor(h)
    \/ \E h \in Handles, k \in Kinds, s \in BOOLEAN : Acquire(h, k, s, TRUE)
    \/ \E h \in Handles : FromExisting(h, TRUE)
    \/ \E a \in Handles, b \in Handles : Move(a, b)
    \/ \E h \in Handles : Close(h)
    \/ \E h \in Handles : Terminate(h)
    \/ \E h \in Handles : Destroy(h)
    \/ \E h \in Handles, n \in Handles, p \in BOOLEAN : CreatePair(h, n, p, TRUE, TRUE)
    \/ \E h \in Handles, k \in Kinds : SetupFails(h, k)

Spec == Init /\ [][Next]_vars

\* The same life cycle when fstat() may fail as well
FaultNext ==
    \/ \E h \in Handles : DefaultCtor(h)
    \/ \E h \in Handles, k \in Kinds, s \in BOOLEAN, f \in BOOLEAN : Acquire(h, k, s, f)
    \/ \E h \in Handles, f \in BOOLEAN : FromExisting(h, f)
    \/ \E a \in Handles, b \in Handles : Move(a, b)
    \/ \E h \in Handles : Close(h)
    \/ \E h \in Handles : Terminate(h)
    \/ \E h \in Handles : Destroy(h)
    \/ \E h \in Handles, n \in Handles, p \in BOOLEAN, f \in BOOLEAN, g \in BOOLEAN :
          CreatePair(h, n, p, f, g)
    \/ \E h \in Handles, k \in Kinds : SetupFails(h, k)

SpecFault == Init /\ [][FaultNext]_vars

\* The caller's own steps are taken when they can be, and time passes while
\* select() sleeps; signals and the remote end are under no obligation.
FairSpecIO ==
    /\ SpecIO
    /\ WF_vars(RdLoop) /\ WF_vars(PnDrain) /\ WF_vars(RdRecv)
    /\ WF_vars(SelReady) /\ WF_vars(SelTimeout) /\ WF_vars(SelTick)

\* ================================================================ claims
SelectCalls(cs, names) == SelectSeq(cs, LAMBDA c : c[1] \in names)
HasCall(cs, name)      == \E k \in 1 .. Len(cs) : cs[k][1] = name

\* C1: no two handle objects hold the same non-sentinel descriptor, every
\* descriptor a handle holds is an open one, and a descriptor passes from one
\* handle to another only in a move, which takes it away from the source.
C1_ExclusiveOwnership ==
    /\ [](\A a \in Handles, b \in Handles :
            a # b /\ hsock[a] # INVALID_HANDLER => hsock[a] # hsock[b])
    /\ [](\A a \in Handles : hsock[a] # INVALID_HANDLER => IsOpen(sk, hsock[a]))
    /\ [][\A a \in Handles, b \in Handles :
            (a # b /\ hsock[a] # INVALID_HANDLER /\ hsock[b] # hsock[a] /\ hsock'[b] = hsock[a])
            => (cur'.op = "move" /\ hsock'[a] = INVALID_HANDLER /\ sk' = sk)]_vars

C1_Witness ==
    /\ cur.op = "move"
    /\ \E a \in Handles, b \in Handles :
          /\ a # b /\ cls[a] # "none" /\ hsock[a] = INVALID_HANDLER
          /\ hsock[b] # INVALID_HANDLER /\ IsOpen(sk, hsock[b])

\* C2: a move construction of b from a gives b the descriptor and identity a
\* had, resets a to (sentinel, 0) and issues no OS call; destroying the
\* moved-from a issues no OS call and leaves every other handle and every
\* socket as it was.
C2_MoveTransfers ==
    [][\A a \in Handles :
          /\ \A b \in Handles :
                Move(a, b) => /\ hsock'[b] = hsock[a] /\ inode'[b] = inode[a]
                              /\ hsock'[a] = INVALID_HANDLER /\ inode'[a] = INVALID_INODE
                              /\ calls' = <<>> /\ sk' = sk
          /\ (Destroy(a) /\ hsock[a] = INVALID_HANDLER /\ inode[a] = INVALID_INODE)
                => /\ calls' = <<>> /\ sk' = sk
                   /\ \A b \in Handles \ {a} : hsock'[b] = hsock[b] /\ inode'[b] = inode[b]]_vars

C2_Witness ==
    /\ cur.op = "move" /\ calls = <<>>
    /\ \E a \in Handles, b \in Handles :
          /\ a # b /\ cls[a] # "none" /\ ~IsLive(a) /\ IsLive(b)
          /\ sk[hsock[b]].kind \in Kinds

\* C5: destroying a live handle issues shutdown and then close on its
\* descriptor, each exactly once; destroying a handle that close() left with
\* the sentinel descriptor issues neither.
C5_DestroyShutsDownOnce ==
    [][\A h \in Handles :
          Destroy(h) =>
             IF IsLive(h)
             THEN /\ SelectCalls(calls', {"shutdown", "close"})
                        = << <<"shutdown", hsock[h]>>, <<"close", hsock[h]>> >>
                  /\ ~IsOpen(sk', hsock[h])
             ELSE hsock[h] = INVALID_HANDLER => SelectCalls(calls', {"shutdown", "close"}) = <<>>]_vars

C5_Witness ==
    /\ cur.op = "destroy"
    /\ \E d \in FDs : SelectCalls(calls, {"shutdown", "close"}) = << <<"shutdown", d>>, <<"close", d>> >>

\* C6: close() on a live handle issues exactly one close and no shutdown and
\* leaves the handle at (sentinel, 0); close() on a handle already in that
\* state issues no OS call and changes nothing.
C6_CloseIdempotent ==
    [][\A h \in Handles :
          Close(h) =>
             /\ hsock'[h] = INVALID_HANDLER /\ inode'[h] = INVALID_INODE
             /\ IsLive(h) => /\ calls' = << <<"close", hsock[h]>> >>
                             /\ ~IsOpen(sk', hsock[h])
             /\ (hsock[h] = INVALID_HANDLER /\ inode[h] = INVALID_INODE)
                   => calls' = <<>> /\ hsock' = hsock /\ inode' = inode /\ sk' = sk]_vars

C6_Witness ==
    /\ cur.op = "close" /\ calls = <<>>
    /\ \E h \in Handles :
          /\ cls[h] \in Kinds /\ hsock[h] = INVALID_HANDLER /\ inode[h] = INVALID_INODE
          /\ \A g \in Handles \ {h} : cls[g] = "none"

\* ---- I/O claims
\* the socket behind handle h is connected, its queue is empty and its remote
\* end has not closed: nothing to read, and no end-of-file to report
Quiet(h) ==
    /\ IsOpen(sk, hsock[h])
    /\ sk[hsock[h]].rq = <<>> /\ ~sk[hsock[h]].hup /\ sk[hsock[h]].conn # "none"

InBoundedRead == cur.op = "read" /\ pc \in {"rd_loop", "pn_drain", "rd_sel", "rd_recv"}

\* C3: read, write, pending and waitData invoked on a handle that is not live
\* all fail with the invalid-handle error (system_error "Invalid socket
\* handler") and with no other kind of error.
C3_NonLiveRejected ==
    [][\A h \in Handles :
          (cls[h] # "none" /\ ~IsLive(h)) =>
             /\ PendingCall(h) => (pc' = "idle" /\ res' = InvalidHandleErr)
             /\ \A t \in Timeouts :
                   WaitDataCall(h, t) => (pc' = "idle" /\ res' = InvalidHandleErr)
             /\ \A n \in 1 .. MaxBytes, t \in Timeouts :
                   ReadCall(h, TRUE, n, t) => (pc' = "idle" /\ res' = InvalidHandleErr)
             /\ \A d \in Payloads \ {<<>>}, m \in {WRITE_DONT_WAIT, WRITE_WAIT_QUEUED} :
                   WriteCall(h, TRUE, d, m) => (pc' = "idle" /\ res' = InvalidHandleErr)]_vars

\* C4: a read on a live handle with maxBytes > 0 that returns a value returns
\* a count between 0 and maxBytes in every timeout mode, and a read with
\* DONT_WAIT on an empty input queue returns 0.
C4_ReadCountInRange ==
    [][/\ \A h \in Handles, n \in 1 .. MaxBytes, t \in Timeouts :
             /\ (IsLive(h) /\ ReadCall(h, TRUE, n, t) /\ pc' = "idle" /\ res'.exc = "none")
                   => (0 <= res'.val /\ res'.val <= n)
             /\ (IsLive(h) /\ Quiet(h) /\ ReadCall(h, TRUE, n, DONT_WAIT))
                   => res' = Value(0)
       /\ (cur.op = "read" /\ pc # "idle" /\ pc' = "idle" /\ res'.exc = "none")
             => (0 <= res'.val /\ res'.val <= cur.bytes)]_vars

\* C7: waitData on a live handle returns a value greater than 0 exactly when
\* the descriptor was readable at the moment the wait ended, and 0 exactly
\* when the timeout ran out with nothing to read.
C7_WaitDataResult ==
    [][(cur.op = "waitData" /\ pc = "wd_sel" /\ pc' = "idle" /\ res'.exc = "none")
          => /\ res'.val > 0 <=> Readable(sk, hsock[cur.h])
             /\ res'.val = 0 <=> ~Readable(sk, hsock[cur.h])]_vars

\* C8: for every bounded timeout t >= 0, a read on a live handle whose queue
\* stays empty while its remote end neither sends nor closes returns 0 and
\* raises no error.
C8_QuietReadReturnsZero ==
    [][/\ \A h \in Handles, n \in 1 .. MaxBytes, t \in 0 .. MaxTimeout :
             (IsLive(h) /\ Quiet(h) /\ ReadCall(h, TRUE, n, t) /\ pc' = "idle")
                => res' = Value(0)
       /\ (InBoundedRead /\ pc' = "idle" /\ loc.lesen = 0 /\ Quiet(cur.h))
             => res' = Value(0)]_vars

\* C9: a read with a bounded timeout always returns.  A pass through its loop
\* that comes back to the loop test has received at least one byte or has
\* less time left than before, the byte count never shrinks and the time left
\* never grows, so the loop cannot go round for ever.
C9_BoundedReadReturns ==
    /\ [][(InBoundedRead /\ pc' # "idle")
             => /\ loc'.lesen >= loc.lesen /\ TmUsec(loc'.tm) <= TmUsec(loc.tm)
                /\ (pc # "rd_loop" /\ pc' = "rd_loop")
                      => (loc'.lesen > loc.lesen \/ TmUsec(loc'.tm) < TmUsec(loc.tm))]_vars
    /\ InBoundedRead ~> (pc = "idle")

C9_Witness ==
    /\ cur.op = "read" /\ pc = "rd_loop" /\ cur.timeout > 0
    /\ HasCall(calls, "select") /\ loc.lesen = 0
    /\ TmUsec(loc.tm) > 0 /\ TmUsec(loc.tm) < TmUsec(MkTimeval(cur.timeout))

\* C10: on a datagram handle, a pending() call that finds an empty datagram
\* at the head of the queue reports 0 and takes exactly that datagram off the
\* queue; a pending() call that finds a datagram of n > 0 bytes at the head
\* reports n and leaves the queue alone.  k empty datagrams in front of a
\* datagram of n bytes are therefore gone after k calls, and call k+1 reports n.
C10_PendingDrainsEmptyDatagrams ==
    [][/\ (cur.op = "pending" /\ pc = "pn_drain" /\ pc' = "idle"
             /\ sk[hsock[cur.h]].kind = "dgram"
             /\ sk[hsock[cur.h]].rq # <<>> /\ Head(sk[hsock[cur.h]].rq) = <<>>)
          => /\ res' = Value(0)
             /\ sk' = [sk EXCEPT ![hsock[cur.h]].rq = Tail(@)]
       /\ \A h \in Handles :
             (IsLive(h) /\ sk[hsock[h]].kind = "dgram" /\ PendingCall(h)
                /\ sk[hsock[h]].rq # <<>> /\ Head(sk[hsock[h]].rq) # <<>>)
             => (pc' = "idle" /\ res' = Value(Len(Head(sk[hsock[h]].rq))) /\ sk' = sk)]_vars

C10_Witness ==
    /\ cur.op = "pending" /\ pc = "idle" /\ res = Value(0)
    /\ HasCall(calls, "recvfrom")
    /\ \E h \in Handles :
          /\ IsLive(h) /\ sk[hsock[h]].kind = "dgram"
          /\ sk[hsock[h]].rq # <<>> /\ Head(sk[hsock[h]].rq) # <<>>

\* C11: pending(), called by itself or from a bounded read, takes a datagram
\* off the input queue only if its payload is empty and leaves the queue as it
\* is otherwise, also when the datagram arrived after the byte count was read.
C11_PendingKeepsPayload ==
    [][/\ \A h \in Handles : PendingCall(h) => sk' = sk
       /\ (pc = "pn_drain" /\ pc' # "pn_drain")
             => LET fd == hsock[cur.h]
                IN  IF sk[fd].kind = "dgram" /\ sk[fd].rq # <<>> /\ Head(sk[fd].rq) = <<>>
                    THEN sk' = [sk EXCEPT ![fd].rq = Tail(@)]
                    ELSE sk' = sk]_vars

\* ---- waitEvent claims
\* C12: when poll() reports events, waitEvent returns the handle at the
\* smallest index of the list whose revents intersect the requested events,
\* and that handle only, however many listed handles are ready.
C12_FirstReadyHandle ==
    [][PollReady
          => LET rev  == PollRevents(cur.list, cur.mask)
                 hits == {idx \in 1 .. Len(cur.list) : rev[idx] \cap cur.mask # {}}
             IN  hits # {}
                    => /\ res' = Value(cur.list[MinOf(hits)])
                       /\ res'.val \in Handles
                       /\ \A idx \in 1 .. Len(cur.list) :
                             idx < MinOf(hits) => rev[idx] \cap cur.mask = {}]_vars

\* two different handles are listed, handle 2 first, and both have a requested event
C12_Witness ==
    /\ cur.op = "waitEvent" /\ pc = "we_poll" /\ HasCall(calls, "poll")
    /\ cur.list = <<2, 1>>
    /\ \A idx \in 1 .. 2 : PollRevents(cur.list, cur.mask)[idx] \cap cur.mask # {}

\* C13: waitEvent returns none only for an empty list or when the timeout ran
\* out with no listed handle having a requested event; for an empty list it
\* returns at once without a poll(); a poll() interrupted by a signal is
\* called again with the same timeout and does not end the call.
C13_NoneOnlyOnTimeout ==
    [][/\ \A m \in WaitModes, t \in 0 .. MaxTimeout :
             WaitEventCall(m, t, <<>>) => (pc' = "idle" /\ res' = Value(0) /\ calls' = <<>>)
       /\ (cur.op = "waitEvent" /\ pc = "we_poll" /\ pc' = "idle" /\ res' = Value(0))
             => /\ TmUsec(loc.tm) = 0
                /\ \A idx \in 1 .. Len(cur.list) :
                      PollRevents(cur.list, cur.mask)[idx] \cap cur.mask = {}
       /\ PollEintr => (pc' = "we_poll" /\ cur' = cur /\ loc'.tm = MkTimeval(cur.timeout))]_vars

\* ---- write claims
\* the socket behind handle h has a remote end that send() can deliver to
CanSend(h) ==
    /\ IsOpen(sk, hsock[h]) /\ ~sk[hsock[h]].hup
    /\ \/ sk[hsock[h]].conn = "pair"
       \/ sk[hsock[h]].conn = "ext" /\ sk[hsock[h]].kind = "stream"

\* C14: write with WRITE_DONT_WAIT on a live, connected handle raises no error
\* and returns the number of bytes enqueued, between 0 and the length; with a
\* full send buffer that number is 0.
C14_NonBlockingWriteCount ==
    [][\A h \in Handles, d \in Payloads \ {<<>>} :
          (IsLive(h) /\ CanSend(h) /\ WriteCall(h, TRUE, d, WRITE_DONT_WAIT))
             => /\ pc' = "idle" /\ res'.exc = "none"
                /\ 0 <= res'.val /\ res'.val <= Len(d)]_vars

\* ---- rejected calls
\* the step raises, has issued no OS call, and has changed neither a handle,
\* nor a socket, nor the caller's buffer
RejectedClean ==
    /\ pc' = "idle" /\ res'.exc # "none"
    /\ calls' = <<>>
    /\ hsock' = hsock /\ inode' = inode /\ sk' = sk
    /\ loc'.buf = <<>>

RejectedIo(h) ==
    /\ \A b \in BOOLEAN, n \in Lengths, t \in Timeouts :
          (ReadCall(h, b, n, t) /\ (~b \/ n <= 0 \/ ~IsLive(h))) => RejectedClean
    /\ \A b \in BOOLEAN, d \in Payloads, m \in {WRITE_DONT_WAIT, WRITE_WAIT_QUEUED} :
          (WriteCall(h, b, d, m) /\ (~b \/ Len(d) <= 0 \/ ~IsLive(h))) => RejectedClean
    /\ \A t \in Timeouts : (WaitDataCall(h, t) /\ ~IsLive(h)) => RejectedClean

\* C15: a read, write, pending or waitData call that is rejected for a null
\* buffer, a non-positive length or a handle that is not live raises before
\* any OS call is issued and changes neither the handle's fields, nor the
\* input queue, nor the caller's buffer.
C15_RejectedBeforeOsCall ==
    [][\A h \in Handles :
          cls[h] # "none" =>
             /\ RejectedIo(h)
             /\ (PendingCall(h) /\ ~IsLive(h)) => RejectedClean]_vars

\* ---- construction claims
\* C16: when acquire fails, because socket() failed or because the identity
\* of the new descriptor could not be read, it raises the system error and
\* leaves no descriptor open that was not open before.
C16_FailedAcquireLeaksNothing ==
    [][\A h \in Handles, k \in Kinds, s \in BOOLEAN, f \in BOOLEAN :
          (Acquire(h, k, s, f) /\ cls'[h] = "none")
             => /\ res'.exc = "system_error"
                /\ \A fd \in FDs : IsOpen(sk', fd) => IsOpen(sk, fd)]_vars

\* ---- stream transfer claims
\* the stream socket behind a live handle, connected to the other end of a pair
PairStream(fd) == IsOpen(sk, fd) /\ sk[fd].kind = "stream" /\ sk[fd].conn = "pair"

\* C17: round trip on a connected stream pair.  A write of N bytes with
\* WRITE_WAIT_QUEUED that returns N has appended exactly those bytes, in
\* order, to the queue of the other end; a read with WAIT_DATA_FOREVER for
\* exactly the N bytes queued there returns N, delivers the bytes in the
\* order they were queued and leaves the queue empty.
C17_RoundTrip ==
    [][/\ \A h \in Handles, d \in StreamPayloads :
            (/\ IsLive(h) /\ PairStream(hsock[h])
             /\ WriteCall(h, TRUE, d, WRITE_WAIT_QUEUED)
             /\ pc' = "idle" /\ res' = Value(Len(d)))
               => LET p == sk[hsock[h]].peer
                  IN  sk' = [sk EXCEPT ![p].rq = @ \o d]
       /\ (/\ pc = "rd_wall" /\ PairStream(hsock[cur.h])
           /\ Len(sk[hsock[cur.h]].rq) = cur.bytes
           /\ pc' = "idle")
             => /\ res' = Value(cur.bytes)
                /\ loc'.buf = sk[hsock[cur.h]].rq
                /\ sk' = [sk EXCEPT ![hsock[cur.h]].rq = <<>>]]_vars

\* C17 witness: a two-byte write was queued in order on the other end, where
\* a read with WAIT_DATA_FOREVER for two bytes is about to receive it
C17_Witness ==
    /\ cur.op = "read" /\ pc = "rd_wall" /\ cur.h = 2 /\ cur.bytes = 2
    /\ cur.timeout = WAIT_DATA_FOREVER
    /\ PairStream(2) /\ sk[2].rq = <<"a", "b">>

\* C18: on a stream socket, a read with WAIT_DATA_FOREVER returns exactly
\* maxBytes unless the peer closed the channel: interruption of the wait
\* never shortens the result.
C18_WaitForeverReturnsAll ==
    [][(/\ cur.op = "read" /\ pc = "rd_wall" /\ pc' = "idle"
        /\ IsOpen(sk, hsock[cur.h]) /\ sk[hsock[cur.h]].kind = "stream")
          => \/ res' = Value(cur.bytes)
             \/ sk[hsock[cur.h]].hup]_vars

\* a bounded-timeout read on a pair that started with maxBytes or more queued:
\* nothing is added to the queue of a pair while its only thread is in read
ReadWithAllQueued ==
    /\ cur.op = "read" /\ pc \in {"rd_loop", "rd_recv"}
    /\ PairStream(hsock[cur.h])
    /\ loc.lesen + Len(sk[hsock[cur.h]].rq) >= cur.bytes

\* C19: on a connected stream pair, a bounded-timeout read that starts with
\* at least maxBytes queued returns exactly maxBytes, the first maxBytes of
\* the queue in order, issues no select(), leaves its time budget untouched
\* and leaves the surplus queued.
C19_QueuedReadIsImmediate ==
    [][ReadWithAllQueued
          => LET fd == hsock[cur.h]
             IN  /\ loc.tm = MkTimeval(cur.timeout)
                 /\ ~HasCall(calls', "select")
                 /\ loc'.buf \o sk'[fd].rq = loc.buf \o sk[fd].rq
                 /\ \/ pc' \in {"rd_loop", "rd_recv"} /\ loc'.tm = loc.tm
                    \/ /\ pc' = "idle" /\ res' = Value(cur.bytes)
                       /\ Len(loc'.buf) = cur.bytes]_vars

\* C19 witness: one byte of two queued was read, in order, the other is left
C19_Witness ==
    /\ cur.op = "read" /\ pc = "idle" /\ res = Value(1)
    /\ calls = << <<"ioctl", 2>>, <<"recv", 2>> >>
    /\ PairStream(2) /\ sk[2].rq = <<"b">>
    /\ loc.buf = <<"a">>

\* C20: every send issued by write, in both modes, carries MSG_NOSIGNAL: a
\* write on a stream whose peer is gone raises the system error of the
\* negative send result, and the process is never ended by SIGPIPE.
C20_SendNeverSignals ==
    [][(pc = "idle" /\ cur'.op = "write" /\ calls' # <<>>)
          => LET fd == calls'[1][2]                    \* the descriptor given to send()
             IN  /\ calls' = << <<"send", fd>> >>
                 /\ \A m \in {WRITE_DONT_WAIT, WRITE_WAIT_QUEUED} : "MSG_NOSIGNAL" \in SendFlags(m)
                 /\ pc' # "killed"
                 /\ (sk[fd].kind = "stream" /\ sk[fd].hup)
                       => (pc' = "idle" /\ res' = SysErr("send()"))]_vars

\* C20 witness: a write on the end of a stream pair whose peer was closed
\* has raised the error of send()
C20_Witness ==
    /\ cur.op = "write" /\ pc = "idle" /\ res = SysErr("send()")
    /\ \E fd \in FDs :
          /\ calls = << <<"send", fd>> >>
          /\ IsOpen(sk, fd) /\ sk[fd].kind = "stream" /\ sk[fd].conn = "none" /\ sk[fd].hup

\* ---- life-cycle claims, continued
\* C21: terminate() on a handle whose descriptor is not the sentinel issues
\* shutdown and then close on that descriptor and nothing else, and leaves
\* the handle at (sentinel, 0); on a handle whose descriptor is the sentinel
\* it issues no OS call.
C21_TerminateShutsDownThenCloses ==
    [][\A h \in Handles :
          Terminate(h) =>
             /\ hsock'[h] = INVALID_HANDLER /\ inode'[h] = INVALID_INODE
             /\ IF hsock[h] # INVALID_HANDLER
                THEN /\ calls' = << <<"shutdown", hsock[h]>>, <<"close", hsock[h]>> >>
                     /\ ~IsOpen(sk', hsock[h])
                ELSE calls' = <<>> /\ sk' = sk]_vars

C21_Witness ==
    /\ cur.op = "terminate"
    /\ \E h \in Handles, d \in FDs :
          /\ cls[h] # "none" /\ hsock[h] = INVALID_HANDLER /\ inode[h] = INVALID_INODE
          /\ calls = << <<"shutdown", d>>, <<"close", d>> >> /\ ~IsOpen(sk, d)

\* the descriptors an operation closed, in the order of its close calls
Closed(cs) == [k \in 1 .. Len(SelectCalls(cs, {"close"})) |-> SelectCalls(cs, {"close"})[k][2]]

\* C22: whatever the sequence of close, terminate, move, createPair, failed
\* set-up and destruction, every close the library issues is on a descriptor
\* that is open at that moment, and no operation closes a descriptor twice:
\* a descriptor obtained from the OS is closed at most once.
C22_CloseAtMostOnce ==
    [][(calls' # calls \/ sk' # sk)
          => LET cl == Closed(calls')
             IN  /\ \A k \in 1 .. Len(cl) :
                       \/ IsOpen(sk, cl[k])
                       \/ \E j \in 1 .. Len(calls') : calls'[j] = <<"socket", cl[k]>>
                 /\ \A j \in 1 .. Len(cl), k \in 1 .. Len(cl) : j # k => cl[j] # cl[k]
                 /\ \A k \in 1 .. Len(cl) : ~IsOpen(sk', cl[k])]_vars

\* C22 witness: a failed set-up, whose terminate() is followed by the
\* destructor of the base object, has closed its descriptor once
C22_Witness ==
    /\ cur.op = "setup" /\ res.exc = "system_error"
    /\ \E d \in FDs : /\ Closed(calls) = <<d>> /\ ~IsOpen(sk, d)
                      /\ HasCall(calls, "socket") /\ HasCall(calls, "shutdown")

\* C23: between operations the two fields of a handle agree: the descriptor
\* is the sentinel if and only if the identity is zero, so isLive is true
\* exactly for the handles that hold a descriptor.
C23_FieldsAgree ==
    \A h \in Handles :
       cls[h] # "none" => /\ (hsock[h] = INVALID_HANDLER <=> inode[h] = INVALID_INODE)
                          /\ (IsLive(h) <=> hsock[h] # INVALID_HANDLER)

\* C29: createPair on success has shut down and closed the previous
\* descriptor of this handle (if any) and leaves this handle and the returned
\* one both live, on two distinct descriptors connected to each other; when
\* socketpair() fails it returns null and leaves descriptor and identity of
\* this handle as they were.
C29_CreatePairBothLive ==
    [][\A h \in Handles, n \in Handles, p \in BOOLEAN, f \in BOOLEAN, g \in BOOLEAN :
          CreatePair(h, n, p, f, g) =>
             IF res'.val # 0
             THEN /\ res'.val = n /\ cls'[n] = cls[h]
                  /\ hsock[h] # INVALID_HANDLER
                        => /\ SelectCalls(calls', {"shutdown", "close"})
                                 = << <<"shutdown", hsock[h]>>, <<"close", hsock[h]>> >>
                           /\ ~IsOpen(sk', hsock[h])
                  /\ hsock[h] = INVALID_HANDLER => SelectCalls(calls', {"shutdown", "close"}) = <<>>
                  /\ hsock'[h] # INVALID_HANDLER /\ inode'[h] # INVALID_INODE
                  /\ hsock'[n] # INVALID_HANDLER /\ inode'[n] # INVALID_INODE
                  /\ hsock'[h] # hsock'[n]
                  /\ sk'[hsock'[h]].conn = "pair" /\ sk'[hsock'[h]].peer = hsock'[n]
                  /\ sk'[hsock'[n]].conn = "pair" /\ sk'[hsock'[n]].peer = hsock'[h]
             ELSE /\ hsock' = hsock /\ inode' = inode /\ sk' = sk /\ cls' = cls]_vars

\* ---- bounded-timeout read claims
\* C25: in a bounded-timeout read, when recv() returns 0 the call ends at
\* once: it returns the bytes accumulated so far without raising, without
\* another wait and whatever is left of its time budget.
C25_EofEndsRead ==
    [][(RdRecv /\ OsRecv(sk, hsock[cur.h], cur.bytes - loc.lesen, FALSE).n = 0)
          => /\ pc' = "idle" /\ res' = Value(loc.lesen)
             /\ calls' = AddCall(calls, <<"recv", hsock[cur.h]>>)
             /\ loc'.buf = loc.buf]_vars

\* C25 witness: one byte was received, the peer has closed, time is left and
\* the read is about to receive end-of-file
C25_Witness ==
    /\ cur.op = "read" /\ pc = "rd_recv" /\ cur.bytes = 2 /\ loc.lesen = 1
    /\ sk[hsock[cur.h]].kind = "stream" /\ sk[hsock[cur.h]].hup /\ sk[hsock[cur.h]].rq = <<>>
    /\ TmUsec(loc.tm) > 0

\* C26: in a bounded-timeout read, a select() interrupted by a signal raises
\* nothing and the loop goes on with the time select() left over, which is
\* less than the timeout requested; what is left never grows during a call
\* and only select() reduces it, so the waits of one call add up to at most
\* the timeout requested.
C26_InterruptKeepsBudget ==
    [][/\ (InBoundedRead /\ pc' # "idle")
            => /\ TmUsec(loc'.tm) <= TmUsec(loc.tm)
               /\ TmUsec(loc.tm) <= cur.timeout * 1000
               /\ pc # "rd_sel" => loc'.tm = loc.tm
       /\ (SelEintr /\ cur.op = "read")
            => /\ pc' = "rd_loop" /\ res' = res /\ cur' = cur
               /\ TmUsec(loc'.tm) < cur.timeout * 1000]_vars

\* C26 witness: the loop resumed after an interrupted select(), nothing
\* received yet, with part of the budget left
C26_Witness ==
    /\ cur.op = "read" /\ pc = "rd_loop" /\ loc.lesen = 0
    /\ HasCall(calls, "select")
    /\ 0 < TmUsec(loc.tm) /\ TmUsec(loc.tm) < cur.timeout * 1000

\* C27: in every timeout mode, when recv() fails with an error other than
\* EINTR, read raises the system error instead of returning a value.
C27_RecvFailureRaises ==
    [][/\ \A h \in Handles, n \in Lengths \ {0} :
            (/\ IsLive(h) /\ ReadCall(h, TRUE, n, DONT_WAIT)
             /\ OsRecv(sk, hsock[h], n, TRUE).n < 0)
               => res'.exc = "system_error"
       /\ (RdWaitAll /\ OsRecvAll(sk, hsock[cur.h], cur.bytes).n < 0)
               => res'.exc = "system_error"
       /\ (RdRecv /\ OsRecv(sk, hsock[cur.h], cur.bytes - loc.lesen, FALSE).n < 0)
               => res'.exc = "system_error"]_vars

\* ---- frame claims
IoOps == {"read", "write", "pending", "waitData", "waitEvent",
          "getBufferLength", "setBufferLength", "setIomode"}

\* C24: read, write, pending, waitData, waitEvent, getBufferLength,
\* setBufferLength and setIomode leave descriptor and identity of every
\* handle as they were, whether they succeed or fail, and none of them asks
\* the OS for the identity again (no fstat); where these operations and
\* close() are all that runs, only close() changes the two fields.
C24_IoKeepsHandleFields ==
    [][/\ cur'.op \in IoOps
            => /\ hsock' = hsock /\ inode' = inode
               /\ ~HasCall(calls', "fstat")
       /\ (hsock' # hsock \/ inode' # inode)
            => /\ cur'.op = "close"
               /\ \E h \in Handles :
                     /\ hsock'[h] = INVALID_HANDLER /\ inode'[h] = INVALID_INODE
                     /\ \A g \in Handles \ {h} : hsock'[g] = hsock[g] /\ inode'[g] = inode[g]]_vars

\* C24 witness: setIomode has changed the mode of the descriptor of a live
\* handle, whose identity is still the one read at construction
C24_Witness ==
    /\ cur.op = "setIomode" /\ res = NoRes /\ calls # <<>>
    /\ \E h \in Handles :
          /\ IsLive(h) /\ calls = << <<"fcntl", hsock[h]>> >>
          /\ sk[hsock[h]].nb /\ inode[h] = StIno(hsock[h])

\* ---- waitEvent claims, continued
\* C28: what waitEvent returns is none or a handle of its list, and never a
\* handle that is not live; a handle of the list whose descriptor is the
\* sentinel is skipped by poll(): it has no events and does not keep the
\* other handles from being reported.
C28_OnlyLiveHandlesReported ==
    [][PollReady
          => LET rev == PollRevents(cur.list, cur.mask)
             IN  /\ \/ res'.val = 0
                    \/ /\ \E idx \in 1 .. Len(cur.list) : cur.list[idx] = res'.val
                       /\ IsLive(res'.val)
                 /\ \A idx \in 1 .. Len(cur.list) :
                       hsock[cur.list[idx]] = INVALID_HANDLER => rev[idx] = {}
                 /\ res' = Value(FirstMatch(cur.list, rev, cur.mask))]_vars

\* ---- cancellation claim
\* C30: when another thread calls close() on the handle of a bounded-timeout
\* read that is suspended in select(), the read never issues select() or
\* recv() on a descriptor number that close() has already released.
C30_NoCallOnReleasedDescriptor ==
    [][(cur.op = "read" /\ (PnDrain \/ RdRecv))
          => \/ hsock[cur.h] = INVALID_HANDLER
             \/ IsOpen(sk, hsock[cur.h])]_vars

====
